---- MODULE Spec2Model ----
(***************************************************************************)
(* State-machine model of the question-to-answer pipeline of               *)
(* src/sql_agent.py (class NaturalLanguageToSQL).                          *)
(*                                                                         *)
(* The completion service (self.model.generate_content) and the database   *)
(* (self.connection.cursor / cursor.execute / cursor.fetchall) are the     *)
(* environment: every call to them returns or raises, chosen with \E.      *)
(* Python strings are sequences of tokens, so that formatting (f-strings)  *)
(* and the substring test for the "Error:" marker are computed.            *)
(***************************************************************************)
EXTENDS Integers, Sequences, FiniteSets, TLC

\* ------------------------------------------------------------------ bounds
\* Questions asked of one agent instance in a session.
MaxQuestions == 2
\* Largest number of rows a successful execution returns.
MaxRows == 11

\* ------------------------------------------------------- Python values
\* A Python value is a record [t, v]: t is its type, v its content as a
\* sequence of tokens (the empty sequence for None).
PyNone == [t |-> "none", v |-> <<>>]
PyStr(s) == [t |-> "str", v |-> s]
PyNum(n) == [t |-> "num", v |-> <<n>>]

\* bool(x) as Python evaluates it in 'if x:' and 'x and ...'.
Truthy(x) ==
    CASE x.t = "none" -> FALSE
      [] x.t = "str" -> x.v # <<>>
      [] x.t = "num" -> x.v # <<"0">>
      [] x.t = "list" -> x.v # <<>>
      [] x.t = "dict" -> DOMAIN x.v # {}
      [] OTHER -> TRUE

\* str(x), what an f-string substitutes for {x}.
Str(x) == IF x.t = "none" THEN <<"None">> ELSE x.v

\* 'marker in text' for a str text.
Contains(text, marker) == \E i \in 1..Len(text) : text[i] = marker

\* str.strip(), str.startswith(p), str.endswith(p) on character sequences.
IsSpace(c) == c \in {" ", "\n", "\t"}

RECURSIVE LStrip(_)
LStrip(s) == IF s # <<>> /\ IsSpace(Head(s)) THEN LStrip(Tail(s)) ELSE s

RECURSIVE RStrip(_)
RStrip(s) == IF s # <<>> /\ IsSpace(s[Len(s)]) THEN RStrip(SubSeq(s, 1, Len(s) - 1)) ELSE s

Strip(s) == RStrip(LStrip(s))

StartsWith(s, p) == Len(s) >= Len(p) /\ SubSeq(s, 1, Len(p)) = p

EndsWith(s, p) == Len(s) >= Len(p) /\ SubSeq(s, Len(s) - Len(p) + 1, Len(s)) = p

\* The backquote character, and the markdown fences made of it.
Backquote == "BQ"
Fence == <<Backquote, Backquote, Backquote>>
SqlFence == Fence \o <<"s", "q", "l">>
JsonFence == Fence \o <<"j", "s", "o", "n">>

\* Exceptions the collaborators raise: a class and a message.  Every class
\* here derives from Exception; MySQLError stands for mysql.connector.Error
\* and its subclasses, Exception for every other one (ValueError, TypeError,
\* AttributeError, google.api_core errors ...).
ExcClasses == {"MySQLError", "Exception"}
ExcMessages == {"e1", "e2"}
Exceptions == [cls : ExcClasses, msg : ExcMessages]
\* The completion service raises none of the database driver's errors.
CompletionExceptions == {e \in Exceptions : e.cls # "MySQLError"}
TypeErrorExc == [cls |-> "Exception", msg |-> "argument of type 'int' is not iterable"]

\* ------------------------------------------------------------ dataclasses
QueryResult(sql, data, cols, ok, err) ==
    [sql_query |-> sql, data |-> data, column_names |-> cols,
     success |-> ok, error_message |-> err]

SQLReview(text, corrected) == [review_text |-> text, corrected_query |-> corrected]

AgentResponse(answer, qr, review) ==
    [natural_language_answer |-> answer, query_result |-> qr, review |-> review]

\* ------------------------------------------------------------ inputs
Questions == {"how many customers", "top products"}

\* What the completion service does during one generate_content call and the
\* read of response.text: it returns one of 'texts', or raises.
CompletionBehaviours(texts) ==
    [kind : {"text"}, text : texts, e : {PyNone}]
    \cup [kind : {"raises"}, text : {<<>>}, e : CompletionExceptions]

\* Completion texts answering the generate-SQL prompt: bare SQL, and SQL in a
\* markdown fence with a trailing newline.
GenerateTexts ==
    { <<"q", "1">>,
      SqlFence \o <<"\n", "q", "2", "\n">> \o Fence \o <<"\n">> }

VARIABLES
    self,                        \* the agent: schema_info, connection, model
    pc,                          \* position of the running ask_question call
    question,                    \* its argument
    sql_query,                   \* local of ask_question
    initial_query_result,        \* local of ask_question
    final_query_result,          \* local of ask_question
    review_result_for_response,  \* local of ask_question
    agent_response,              \* the value ask_question returned
    escaped,                     \* the exception that left ask_question, if any
    calls,                       \* collaborator calls of the running question
    asked,                       \* questions asked so far
    probe,                       \* a function of the agent applied on its own:
                                 \* its name, its input and its output
    session                      \* the script run of each browser session of
                                 \* app.py: where its ask_question call stands

\* The variables the question-answering flow of one caller leaves alone.
otherVars == <<probe, session>>

\* The variables of the question-answering flow.
flowVars == <<self, pc, question, sql_query, initial_query_result,
              final_query_result, review_result_for_response, agent_response,
              escaped, calls, asked>>

vars == <<flowVars, otherVars>>

\* Browser sessions of the Streamlit app, and questions typed in each.
MaxSessions == 2
MaxSessionQuestions == 2
Sessions == 1..MaxSessions

\* A script run that has not called ask_question.
IdleSession == [pc |-> "idle", sql_query |-> PyNone, asked |-> 0]

\* No function is being applied on its own.
NoProbe == [fn |-> "none", input |-> <<>>, output |-> <<>>, again |-> <<>>]

\* A collaborator call: op is "generate", "review", "synthesize" (a
\* completion call, arg its prompt) or "execute" (_execute_sql_query, arg the
\* statement); raised and exc say how the call ended; result is the
\* QueryResult of an execution, and what the calling component made of a
\* completion; reply is what the completion service or the database did.
Call(op, arg, reply, raised, exc, result) ==
    [op |-> op, arg |-> arg, reply |-> reply, raised |-> raised, exc |-> exc,
     result |-> result]

Init ==
    /\ self = [schema_info |-> <<"Table: t", "  - a: int (Primary Key)">>,
               connection |-> "connection", model |-> "gemini-2.5-flash"]
    /\ pc = "idle"
    /\ question = PyNone
    /\ sql_query = PyNone
    /\ initial_query_result = PyNone
    /\ final_query_result = PyNone
    /\ review_result_for_response = PyNone
    /\ agent_response = PyNone
    /\ escaped = PyNone
    /\ calls = <<>>
    /\ asked = 0
    /\ probe = NoProbe
    /\ session = [s \in Sessions |-> IdleSession]

\* ------------------------------------------------ ask_question: top level
\* A handler that catches database errors only.
CaughtByAskQuestion_OnlyMySQL(e) == e.cls = "MySQLError"

\* 'except Exception as e' of ask_question: which exceptions it catches.
CaughtByAskQuestion(e) == e.cls \in ExcClasses

\* The AgentResponse the except clause builds.
ErrorResponse(e) ==
    AgentResponse(<<"Error processing question:", e.msg>>,
                  QueryResult(PyStr(<<>>), <<>>, <<>>, FALSE, PyStr(<<e.msg>>)),
                  PyNone)

\* Reconnecting to the database after every step.
AgentAfterStep_Reconnects(agent) == [agent EXCEPT !.connection = "reconnected"]

\* The fields of the agent after a step of ask_question: no statement of
\* lines 119-367 assigns to self.schema_info, self.connection or self.model.
AgentAfterStep(agent) == agent

\* An exception e reaches the end of the try block of ask_question, after the
\* calls in 'log' were made: the handler returns, or e leaves ask_question.
Raise(e, log) ==
    /\ calls' = log
    /\ IF CaughtByAskQuestion(e)
       THEN /\ agent_response' = ErrorResponse(e)
            /\ pc' = "except_return"
            /\ escaped' = escaped
       ELSE /\ agent_response' = agent_response
            /\ pc' = "escaped"
            /\ escaped' = e
    /\ self' = AgentAfterStep(self)
    /\ UNCHANGED <<question, sql_query, initial_query_result,
                   final_query_result, review_result_for_response, asked,
                   otherVars>>

\* The caller (main loop, Streamlit rerun) calls agent.ask_question(q).
AskQuestion(q) ==
    /\ pc \in {"idle", "return", "except_return"}
    /\ asked < MaxQuestions
    /\ asked' = asked + 1
    /\ question' = PyStr(<<q>>)
    /\ pc' = "generate"
    /\ sql_query' = PyNone
    /\ initial_query_result' = PyNone
    /\ final_query_result' = PyNone
    /\ review_result_for_response' = PyNone
    /\ agent_response' = PyNone
    /\ calls' = <<>>
    /\ self' = AgentAfterStep(self)
    /\ UNCHANGED <<escaped, otherVars>>

\* ------------------------------------------------- _generate_sql_query
\* How a call ends: it returns a value or raises an exception.  call holds
\* the completion call made on the way, for the one function that may make
\* none.
Returned(value) == [raised |-> FALSE, exc |-> PyNone, value |-> value, call |-> <<>>]
Raised(e) == [raised |-> TRUE, exc |-> e, value |-> PyNone, call |-> <<>>]

\* The prompt of _generate_sql_query: its two substitutions.
GeneratePrompt(schema_info, q) ==
    [template |-> "generate", schema_info |-> schema_info, question |-> q]

\* Dropping the fences without trimming what is left.
CleanSQL_NoFinalStrip(text) ==
    LET a == Strip(text)
        b == IF StartsWith(a, SqlFence)
             THEN SubSeq(a, 7, Len(a)) ELSE a
    IN IF EndsWith(b, Fence) THEN SubSeq(b, 1, Len(b) - 3) ELSE b

\* Lines 144-151: strip, drop a leading sql fence, drop a trailing fence, strip.
CleanSQL(text) ==
    LET a == Strip(text)
        b == IF StartsWith(a, SqlFence)
             THEN SubSeq(a, 7, Len(a)) ELSE a
        c == IF EndsWith(b, Fence)
             THEN SubSeq(b, 1, Len(b) - 3) ELSE b
    IN Strip(c)

\* Swallowing the error and going on with an empty statement.
GenerateSqlQuery_Swallow(q, c) ==
    IF c.kind = "raises" THEN Returned(PyStr(<<>>)) ELSE Returned(PyStr(CleanSQL(c.text)))

\* _generate_sql_query(q) when the completion service behaves as c: the
\* except clause logs and re-raises.
GenerateSqlQuery(q, c) ==
    IF c.kind = "raises" THEN Raised(c.e) ELSE Returned(PyStr(CleanSQL(c.text)))

\* Step 1: sql_query = self._generate_sql_query(question).
GenerateSQL ==
    /\ pc = "generate"
    /\ \E c \in CompletionBehaviours(GenerateTexts) :
          LET out == GenerateSqlQuery(question, c)
              log == Append(calls, Call("generate", GeneratePrompt(self.schema_info, question),
                                        c, c.kind = "raises", c.e, out.value))
          IN IF out.raised
             THEN Raise(out.exc, log)
             ELSE /\ sql_query' = out.value
                  /\ calls' = log
                  /\ pc' = "execute_initial"
                  /\ self' = AgentAfterStep(self)
                  /\ UNCHANGED <<question, initial_query_result,
                                 final_query_result, review_result_for_response,
                                 agent_response, escaped, asked, otherVars>>

\* ------------------------------------------------- _execute_sql_query
\* Rows as cursor(dictionary=True).fetchall() returns them: a list of
\* mappings, each an ordered sequence of <<column, value>> pairs.
Rows(n) == [i \in 1..n |-> << <<"a", i>> >>]

\* list(row.keys())
Keys(row) == [j \in 1..Len(row) |-> row[j][1]]

\* What the database does during one call of _execute_sql_query:
\*   rows           - execute and fetchall succeed with n rows;
\*   cursor_raises  - self.connection.cursor(dictionary=True) raises e
\*                    (line 165, before the try block);
\*   execute_raises - cursor.execute or cursor.fetchall raises e (inside it).
\* A statement that is not a str cannot be run, so it only raises.
DbBehaviours(sql) ==
    (IF sql.t = "str" THEN [kind : {"rows"}, n : 0..MaxRows, e : {PyNone}] ELSE {})
    \cup [kind : {"cursor_raises", "execute_raises"}, n : {0}, e : Exceptions]

\* 'except mysql.connector.Error as err' of _execute_sql_query.
CaughtByExecutor(e) == e.cls = "MySQLError"

\* _execute_sql_query(sql) when the database behaves as db.
ExecuteSqlQuery(sql, db) ==
    CASE db.kind = "cursor_raises" -> Raised(db.e)
      [] db.kind = "execute_raises" ->
            IF CaughtByExecutor(db.e)
            THEN Returned(QueryResult(sql, <<>>, <<>>, FALSE,
                                      PyStr(<<"SQL execution error:", db.e.msg>>)))
            ELSE Raised(db.e)
      [] OTHER ->
            LET data == Rows(db.n)
                column_names == IF data # <<>> THEN Keys(data[1]) ELSE <<>>
            IN Returned(QueryResult(sql, data, column_names, TRUE, PyNone))

\* Answering straight away, without a review of the failed query.
AfterInitial_NeverReview(result) == "synthesize"

\* Reviewing the queries that ran, not the ones that failed.
AfterInitial_ReviewOnSuccess(result) ==
    IF result.success THEN "review" ELSE "synthesize"

\* Reviewing every query, whether or not it failed.
AfterInitial_AlwaysReview(result) == "review"

\* 'if not initial_query_result.success:' (line 323)
AfterInitial(result) == IF ~result.success THEN "review" ELSE "synthesize"

\* Step 2: initial_query_result = self._execute_sql_query(sql_query), then
\* lines 319-320.
ExecuteInitial ==
    /\ pc = "execute_initial"
    /\ \E db \in DbBehaviours(sql_query) :
          LET out == ExecuteSqlQuery(sql_query, db)
              log == Append(calls, Call("execute", sql_query, db, out.raised, out.exc,
                                        out.value))
          IN IF out.raised
             THEN Raise(out.exc, log)
             ELSE /\ initial_query_result' = out.value
                  /\ final_query_result' = out.value
                  /\ review_result_for_response' = PyNone
                  /\ calls' = log
                  /\ pc' = AfterInitial(out.value)
                  /\ self' = AgentAfterStep(self)
                  /\ UNCHANGED <<question, sql_query, agent_response,
                                 escaped, asked, otherVars>>

\* --------------------------------------------------- _review_sql_query
\* The prompt of _review_sql_query: its one substitution.
ReviewPrompt(sql) == [template |-> "review", sql_query |-> sql]

\* JSON texts the completion service answers the review prompt with, and
\* what json.loads makes of each.  A dict is [t |-> "dict", v |-> f] with f
\* the mapping from its keys to their values.
PyDict(f) == [t |-> "dict", v |-> f]
PyList(s) == [t |-> "list", v |-> s]

JsonDocs ==
    [doc \in { "{\"review\": \"use table t\", \"corrected_query\": \"q3\"}",
               "{\"review\": \"query is fine\", \"corrected_query\": null}",
               "{\"review\": \"Error: unknown table\", \"corrected_query\": \"q3\"}",
               "{\"review\": \"use table t\", \"corrected_query\": \"\"}",
               "{\"review\": 5, \"corrected_query\": \"q3\"}",
               "{\"review\": \"two steps\", \"corrected_query\": [\"q3\"]}",
               "{\"corrected_query\": \"q1\"}",
               "{\"review\": \"cannot fix\"}",
               "[]",
               "null" } |->
        CASE doc = "{\"review\": \"use table t\", \"corrected_query\": \"q3\"}" ->
                PyDict([review |-> PyStr(<<"use table t">>),
                        corrected_query |-> PyStr(<<"q", "3">>)])
          [] doc = "{\"review\": \"query is fine\", \"corrected_query\": null}" ->
                PyDict([review |-> PyStr(<<"query is fine">>),
                        corrected_query |-> PyNone])
          [] doc = "{\"review\": \"Error: unknown table\", \"corrected_query\": \"q3\"}" ->
                PyDict([review |-> PyStr(<<"Error:", " unknown table">>),
                        corrected_query |-> PyStr(<<"q", "3">>)])
          [] doc = "{\"review\": \"use table t\", \"corrected_query\": \"\"}" ->
                PyDict([review |-> PyStr(<<"use table t">>),
                        corrected_query |-> PyStr(<<>>)])
          [] doc = "{\"review\": 5, \"corrected_query\": \"q3\"}" ->
                PyDict([review |-> PyNum("5"),
                        corrected_query |-> PyStr(<<"q", "3">>)])
          [] doc = "{\"review\": \"two steps\", \"corrected_query\": [\"q3\"]}" ->
                PyDict([review |-> PyStr(<<"two steps">>),
                        corrected_query |-> PyList(<<"q3">>)])
          [] doc = "{\"corrected_query\": \"q1\"}" ->
                PyDict([corrected_query |-> PyStr(<<"q", "1">>)])
          [] doc = "{\"review\": \"cannot fix\"}" ->
                PyDict([review |-> PyStr(<<"cannot fix">>)])
          [] doc = "[]" -> PyList(<<>>)
          [] OTHER -> PyNone]

\* Completion texts answering the review prompt: each JSON text bare, one in
\* a json fence, and prose that is no JSON.
ReviewTexts ==
    { <<doc>> : doc \in DOMAIN JsonDocs }
    \cup { JsonFence \o <<"\n", "{\"review\": \"use table t\", \"corrected_query\": \"q3\"}", "\n">>
             \o Fence,
           <<"The query looks wrong.">> }

\* json.loads(text): the parsed value, or JSONDecodeError.
JsonLoads(text) ==
    IF Len(text) = 1 /\ text[1] \in DOMAIN JsonDocs
    THEN Returned(JsonDocs[text[1]])
    ELSE Raised([cls |-> "Exception", msg |-> "JSONDecodeError"])

\* review_data.get(key, default): AttributeError unless review_data is a dict.
DictGet(d, key, default) ==
    IF d.t # "dict"
    THEN Raised([cls |-> "Exception", msg |-> "AttributeError"])
    ELSE Returned(IF key \in DOMAIN d.v THEN d.v[key] ELSE default)

\* Lines 229-234: strip, drop a leading json fence, drop a trailing fence, strip.
CleanJSON(text) ==
    LET a == Strip(text)
        b == IF StartsWith(a, JsonFence) THEN SubSeq(a, 8, Len(a)) ELSE a
        c == IF EndsWith(b, Fence) THEN SubSeq(b, 1, Len(b) - 3) ELSE b
    IN Strip(c)

\* The fallback of the except clause (lines 251-257).
ReviewFallback(e) ==
    SQLReview(PyStr(<<"Error:", " Could not review SQL query due to an internal error: ", e.msg>>),
              PyNone)

\* A reviewer that catches parse errors only.
CaughtByReviewer_OnlyJSONDecodeError(e) == e.msg = "JSONDecodeError"

\* 'except (Exception, json.JSONDecodeError) as e' of _review_sql_query.
CaughtByReviewer(e) == e.cls \in ExcClasses

\* The try block of _review_sql_query (lines 225-249) when the completion
\* service behaves as c.
ReviewTry(sql, c) ==
    IF c.kind = "raises" THEN Raised(c.e)
    ELSE LET review_data == JsonLoads(CleanJSON(c.text)) IN
         IF review_data.raised THEN Raised(review_data.exc)
         ELSE LET text == DictGet(review_data.value, "review",
                                  PyStr(<<"No review text provided.">>))
                  corrected == DictGet(review_data.value, "corrected_query", PyNone)
              IN IF text.raised THEN Raised(text.exc)
                 ELSE Returned(SQLReview(text.value, corrected.value))

\* _review_sql_query(sql) when the completion service behaves as c: what the
\* try block returns, or the fallback for an exception the except clause
\* catches.
ReviewSqlQuery(sql, c) ==
    LET out == ReviewTry(sql, c) IN
    IF out.raised /\ CaughtByReviewer(out.exc)
    THEN Returned(ReviewFallback(out.exc))
    ELSE out

\* Testing 'is not None' instead of truthiness.
AfterReview_IsNotNone(review) ==
    IF review.corrected_query # PyNone THEN "execute_corrected" ELSE "synthesize"

\* 'if review_result.corrected_query:' (line 330)
AfterReview(review) ==
    IF Truthy(review.corrected_query) THEN "execute_corrected" ELSE "synthesize"

\* Step 3, first half: review_result = self._review_sql_query(sql_query) and
\* line 328.
ReviewSQL ==
    /\ pc = "review"
    /\ \E c \in CompletionBehaviours(ReviewTexts) :
          LET out == ReviewSqlQuery(sql_query, c)
              log == Append(calls, Call("review", ReviewPrompt(sql_query), c,
                                        c.kind = "raises", c.e, out.value))
          IN IF out.raised
             THEN Raise(out.exc, log)
             ELSE /\ review_result_for_response' = out.value
                  /\ calls' = log
                  /\ pc' = AfterReview(out.value)
                  /\ self' = AgentAfterStep(self)
                  /\ UNCHANGED <<question, sql_query, initial_query_result,
                                 final_query_result, agent_response, escaped,
                                 asked, otherVars>>

\* Reviewing again when the corrected query fails too.
AfterCorrected_RetryLoop(result) == IF ~result.success THEN "review" ELSE "synthesize"

\* What follows the re-execution (lines 336-337): the failure is logged and
\* the flow goes on to step 4 whatever the result.
AfterCorrected(result) == "synthesize"

\* Step 3, second half: final_query_result =
\* self._execute_sql_query(review_result.corrected_query).
ExecuteCorrected ==
    /\ pc = "execute_corrected"
    /\ \E db \in DbBehaviours(review_result_for_response.corrected_query) :
          LET corrected_query == review_result_for_response.corrected_query
              out == ExecuteSqlQuery(corrected_query, db)
              log == Append(calls, Call("execute", corrected_query, db, out.raised,
                                        out.exc, out.value))
          IN IF out.raised
             THEN Raise(out.exc, log)
             ELSE /\ final_query_result' = out.value
                  /\ calls' = log
                  /\ pc' = AfterCorrected(out.value)
                  /\ self' = AgentAfterStep(self)
                  /\ UNCHANGED <<question, sql_query, initial_query_result,
                                 review_result_for_response, agent_response,
                                 escaped, asked, otherVars>>

\* ------------------------------------- _format_natural_language_response
\* Rows sent to the completion service (query_result.data[:10], line 272).
SampleLimit == 10

Min(a, b) == IF a <= b THEN a ELSE b

\* Raising the truncation flag at ten rows already.
DataSummary_FlagAtLimit(query_result) ==
    [total_rows |-> Len(query_result.data),
     columns |-> query_result.column_names,
     sample_data |-> SubSeq(query_result.data, 1,
                            Min(SampleLimit, Len(query_result.data))),
     has_more_data |-> Len(query_result.data) >= SampleLimit]

\* Lines 269-274.
DataSummary(query_result) ==
    [total_rows |-> Len(query_result.data),
     columns |-> query_result.column_names,
     sample_data |-> SubSeq(query_result.data, 1,
                            Min(SampleLimit, Len(query_result.data))),
     has_more_data |-> Len(query_result.data) > SampleLimit]

\* Lines 276-278: the review-info block, or the TypeError of
\* '"Error:" not in review_text' when review_text is a number.
ReviewInfo(review_text) ==
    IF ~Truthy(review_text) THEN Returned(<<>>)
    ELSE IF review_text.t = "num" THEN Raised(TypeErrorExc)
    ELSE IF ~Contains(review_text.v, "Error:")
         THEN Returned(<<"SQL Query Review:\n">> \o Str(review_text) \o <<"\n\n">>)
         ELSE Returned(<<>>)

\* The prompt of _format_natural_language_response: its four substitutions.
SynthesisPrompt(q, query_result, review_info) ==
    [template |-> "synthesize", question |-> q,
     sql_query |-> query_result.sql_query, review_info |-> review_info,
     data_summary |-> DataSummary(query_result)]

\* Completion texts answering the synthesis prompt.
SynthesisTexts == { <<"There are 42 customers.", "\n">> }

\* Without the check of success.
FormatBranch_NoErrorCheck(query_result) ==
    IF query_result.data = <<>> THEN "empty" ELSE "completion"

\* Without the check for zero rows.
FormatBranch_NoEmptyCheck(query_result) ==
    IF ~query_result.success THEN "error" ELSE "completion"

\* Which branch of _format_natural_language_response a result takes:
\* "error" (line 262), "empty" (line 265) or "completion" (lines 268-303).
FormatBranch(query_result) ==
    IF ~query_result.success THEN "error"
    ELSE IF query_result.data = <<>> THEN "empty"
    ELSE "completion"

\* Line 263.
ErrorSentence(query_result) ==
    <<"I encountered an error while processing your question: ">>
        \o Str(query_result.error_message)

\* Line 266.
NoResultsSentence == <<"I found no results for your question in the database.">>

\* Line 303.
FallbackSentence(query_result) ==
    <<"I found ", ToString(Len(query_result.data)),
      " results, but encountered an error formatting the response.">>

\* A synthesizer that lets completion errors through.
CaughtBySynthesizer_Nothing(e) == FALSE

\* 'except Exception as e' of _format_natural_language_response (line 301).
CaughtBySynthesizer(e) == e.cls \in ExcClasses

\* _format_natural_language_response(q, query_result, review_text) when the
\* completion service, if called, behaves as c.  The outcome also carries
\* the completion call made, if any.
FormatNaturalLanguageResponse(q, query_result, review_text, c) ==
    CASE FormatBranch(query_result) = "error" ->
            Returned(ErrorSentence(query_result))
      [] FormatBranch(query_result) = "empty" ->
            Returned(NoResultsSentence)
      [] OTHER ->
            LET review_info == ReviewInfo(review_text) IN
            IF review_info.raised
            THEN Raised(review_info.exc)
            ELSE LET prompt == SynthesisPrompt(q, query_result, review_info.value)
                     out == IF c.kind # "raises" THEN Returned(Strip(c.text))
                            ELSE IF CaughtBySynthesizer(c.e)
                                 THEN Returned(FallbackSentence(query_result))
                                 ELSE Raised(c.e)
                 IN [out EXCEPT
                        !.call = <<Call("synthesize", prompt, c, c.kind = "raises",
                                        c.e, PyStr(out.value))>>]

\* Step 4 and the return: response_text =
\* self._format_natural_language_response(...), then lines 347-358.
Synthesize ==
    /\ pc = "synthesize"
    /\ \E c \in CompletionBehaviours(SynthesisTexts) :
          LET review_text == IF review_result_for_response # PyNone
                             THEN review_result_for_response.review_text
                             ELSE PyNone
              out == FormatNaturalLanguageResponse(question, final_query_result,
                                                   review_text, c)
              log == calls \o out.call
          IN IF out.raised
             THEN Raise(out.exc, log)
             ELSE /\ agent_response' = AgentResponse(out.value, final_query_result,
                                                     review_result_for_response)
                  /\ calls' = log
                  /\ pc' = "return"
                  /\ self' = AgentAfterStep(self)
                  /\ UNCHANGED <<question, sql_query, initial_query_result,
                                 final_query_result, review_result_for_response,
                                 escaped, asked, otherVars>>

\* The steps of the running ask_question call.
Step ==
    \/ GenerateSQL
    \/ ExecuteInitial
    \/ ReviewSQL
    \/ ExecuteCorrected
    \/ Synthesize

Next ==
    \/ \E q \in Questions : AskQuestion(q)
    \/ Step

Spec == Init /\ [][Next]_vars

\* ask_question is synchronous: once called it runs each step as soon as the
\* blocking call before it has returned or raised.
FairSpec == Spec /\ WF_vars(Step)

\* ====================================================== properties
\* The calls of one kind made for the running question, in order.
CallsOf(op) == SelectSeq(calls, LAMBDA c : c.op = op)
NumCalls(op) == Len(CallsOf(op))
Executions == CallsOf("execute")

\* ask_question has returned an AgentResponse (from line 358 or line 363).
Done == pc \in {"return", "except_return"}

IsQueryResult(r) ==
    /\ DOMAIN r = {"sql_query", "data", "column_names", "success", "error_message"}
    /\ r.success \in BOOLEAN

IsAgentResponse(r) ==
    /\ DOMAIN r = {"natural_language_answer", "query_result", "review"}
    /\ r.natural_language_answer # <<>>
    /\ IsQueryResult(r.query_result)
    /\ r.review = PyNone \/ DOMAIN r.review = {"review_text", "corrected_query"}

\* The completion call of generation raised.
GenerationFailed ==
    /\ calls # <<>>
    /\ calls[1].op = "generate"
    /\ calls[1].raised

\* Generation returned and the initial execution returned a QueryResult.
InitialReturned ==
    /\ NumCalls("execute") >= 1
    /\ ~Executions[1].raised

InitialSucceeded == InitialReturned /\ Executions[1].result.success
InitialFailed == InitialReturned /\ ~Executions[1].result.success

\* The reviewer has run and what it returned.
Reviewed == NumCalls("review") >= 1
TheReview == CallsOf("review")[1].result
ReviewerCorrected == Reviewed /\ Truthy(TheReview.corrected_query)
ReviewerGaveNoCorrection == Reviewed /\ ~Truthy(TheReview.corrected_query)

\* C1: ask_question never lets an exception escape; whatever the completion
\* service and the database do (return or raise), every call of ask_question
\* ends by returning a well-formed AgentResponse.
C1_AlwaysReturnsResponse ==
    /\ [](pc # "escaped" /\ escaped = PyNone)
    /\ [](Done => IsAgentResponse(agent_response))
    /\ [](pc = "generate" => <>Done)

\* C1 witness: a call that ended in the except clause after its initial
\* execution raised, and returned a response.
C1_Witness ==
    /\ pc = "except_return"
    /\ NumCalls("execute") = 1
    /\ Executions[1].raised
    /\ IsAgentResponse(agent_response)

\* C2: when generation and the initial execution both succeed, no review
\* call and no second execution are made, and the response has review = None
\* and the initial execution's result as its query_result.
C2_SuccessSkipsReview ==
    InitialSucceeded =>
        /\ NumCalls("review") = 0
        /\ NumCalls("execute") = 1
        /\ Done => /\ agent_response.review = PyNone
                   /\ agent_response.query_result = Executions[1].result

\* C2 witness: a returned response for a question whose initial execution
\* succeeded with rows.
C2_Witness ==
    /\ pc = "return"
    /\ InitialSucceeded
    /\ Executions[1].result.data # <<>>

\* C3: when the initial execution fails and the reviewer returns a corrected
\* query, exactly one re-execution is made, on the corrected query, and the
\* response's query_result is what that re-execution returned, success or
\* failure.
C3_CorrectedResultIsFinal ==
    (Done /\ InitialFailed /\ ReviewerCorrected) =>
        /\ NumCalls("execute") = 2
        /\ Executions[2].arg = TheReview.corrected_query
        /\ agent_response.query_result = Executions[2].result
        /\ agent_response.query_result # Executions[1].result

\* C4: when the initial execution fails and the reviewer returns no
\* correction (its error fallback included), no re-execution is made, the
\* response's query_result is the original failed result and its review is
\* the SQLReview the reviewer returned.
C4_NoCorrectionKeepsOriginal ==
    (InitialFailed /\ ReviewerGaveNoCorrection) =>
        /\ NumCalls("execute") = 1
        /\ Done => /\ agent_response.query_result = Executions[1].result
                   /\ ~agent_response.query_result.success
                   /\ agent_response.review # PyNone
                   /\ agent_response.review = TheReview
                   /\ agent_response.review.review_text = TheReview.review_text

\* C4 witness: a returned response after a failed initial execution whose
\* review fell back on the reviewer's error text.
C4_Witness ==
    /\ Done
    /\ InitialFailed
    /\ ReviewerGaveNoCorrection
    /\ CallsOf("review")[1].raised
    /\ Contains(agent_response.review.review_text.v, "Error:")

\* C5: a returned response has a non-null review if and only if the initial
\* execution failed and a review was performed.
C5_ReviewIffInitialFailed ==
    Done => (agent_response.review # PyNone <=> (InitialFailed /\ Reviewed))

\* C6: a returned response's query_result is the result of the query that
\* succeeded or, when no attempted query succeeded, the result of the last
\* query attempted, with that statement as its sql_query.
C6_ResultOfSucceededOrLast ==
    (Done /\ NumCalls("execute") >= 1) =>
        LET last == Executions[NumCalls("execute")]
            succeeded == {i \in 1..NumCalls("execute") :
                            /\ ~Executions[i].raised
                            /\ Executions[i].result.success}
        IN IF succeeded # {}
           THEN \E i \in succeeded : agent_response.query_result = Executions[i].result
           ELSE /\ agent_response.query_result = last.result
                /\ agent_response.query_result.sql_query = last.arg

\* C7: retry depth is one: at most two executions and one review per
\* question, and nothing is reviewed or executed after the corrected query.
C7_RetryDepthOne ==
    /\ NumCalls("execute") <= 2
    /\ NumCalls("review") <= 1
    /\ \A i, j \in DOMAIN calls :
          (/\ i < j
           /\ calls[i].op = "execute"
           /\ \E k \in 1..(i - 1) : calls[k].op = "execute")
          => calls[j].op \notin {"execute", "review"}

\* C7 witness: a returned response after both the initial and the corrected
\* query failed.
C7_Witness ==
    /\ pc = "return"
    /\ NumCalls("execute") = 2
    /\ NumCalls("review") = 1
    /\ ~Executions[1].result.success
    /\ ~Executions[2].result.success

\* C8: when SQL generation raises, no query is attempted (no execution, no
\* review, no synthesis), and the response has review = None, a failed
\* query_result with no data, and the error in both its answer and its
\* query_result.error_message.
C8_GenerationFailureAborts ==
    GenerationFailed =>
        /\ Len(calls) = 1
        /\ pc = "except_return"
        /\ agent_response.review = PyNone
        /\ ~agent_response.query_result.success
        /\ agent_response.query_result.data = <<>>
        /\ Contains(agent_response.natural_language_answer, calls[1].exc.msg)
        /\ agent_response.query_result.error_message.t = "str"
        /\ Contains(agent_response.query_result.error_message.v, calls[1].exc.msg)

\* C8 witness: generation raised and ask_question returned.
C8_Witness ==
    /\ GenerationFailed
    /\ Done
    /\ calls[1].exc.msg = "e2"

\* The templated error sentence for a failed result.
IsErrorSentenceOf(answer, query_result) ==
    /\ Len(answer) >= 2
    /\ answer[1] = "I encountered an error while processing your question: "
    /\ SubSeq(answer, 2, Len(answer)) = query_result.error_message.v

\* C9, as stated: whenever the final query_result has success = false, the
\* answer is the templated error sentence with that result's error_message,
\* review is non-null and no synthesis completion call is made.
C9_FailureAnswerAsStated ==
    (Done /\ ~agent_response.query_result.success) =>
        /\ IsErrorSentenceOf(agent_response.natural_language_answer,
                             agent_response.query_result)
        /\ agent_response.review # PyNone
        /\ NumCalls("synthesize") = 0

\* C9, amended: whenever the final query_result has success = false, no
\* synthesis completion call is made; when the response comes from the
\* normal return, the answer is the templated error sentence with the
\* error_message of the last execution (the corrected attempt's when one was
\* run) and review is non-null; when it comes from the top-level except
\* clause, the answer is the "Error processing question" text and review is
\* None.
C9_FailureAnswer ==
    (Done /\ ~agent_response.query_result.success) =>
        /\ NumCalls("synthesize") = 0
        /\ pc = "return" =>
              /\ IsErrorSentenceOf(agent_response.natural_language_answer,
                                   agent_response.query_result)
              /\ agent_response.query_result.error_message =
                    Executions[NumCalls("execute")].result.error_message
              /\ agent_response.review # PyNone
        /\ pc = "except_return" =>
              /\ agent_response.natural_language_answer[1] = "Error processing question:"
              /\ agent_response.review = PyNone

\* C9 witness: both queries failed, with different errors, and the response
\* carries the second.
C9_Witness ==
    /\ pc = "return"
    /\ NumCalls("execute") = 2
    /\ ~agent_response.query_result.success
    /\ Executions[1].result.error_message # Executions[2].result.error_message
    /\ agent_response.query_result.error_message = Executions[2].result.error_message

\* C10: a final query_result with success = true and zero rows yields the
\* fixed "no results" sentence, and no synthesis completion call is made.
C10_ZeroRowsFixedSentence ==
    (Done /\ agent_response.query_result.success
          /\ agent_response.query_result.data = <<>>) =>
        /\ agent_response.natural_language_answer =
              <<"I found no results for your question in the database.">>
        /\ NumCalls("synthesize") = 0

\* C10 witness: a corrected query that succeeded with zero rows.
C10_Witness ==
    /\ pc = "return"
    /\ NumCalls("execute") = 2
    /\ agent_response.query_result.success
    /\ agent_response.query_result.data = <<>>
    /\ agent_response.query_result.column_names = <<>>

\* ------------------------------------------------- app.py: UI sessions
\* get_sql_agent is a st.cache_resource: every session's script run gets the
\* one agent built at Init, and calls ask_question on it from its own thread.
\* Each call has its own locals; only its position and the statement it is
\* about to run are kept here.  Nothing in ask_question takes a lock, so a
\* step of one session is enabled whatever the other sessions are doing.

\* The call of session s moves to 'to', about to run 'sql'.
SessionGoes(s, to, sql) ==
    /\ session' = [session EXCEPT ![s].pc = to, ![s].sql_query = sql]
    /\ UNCHANGED <<flowVars, probe>>

\* app.py line 61: the script run of session s calls agent.ask_question.
SessionAsks(s) ==
    /\ session[s].pc \in {"idle", "done"}
    /\ session[s].asked < MaxSessionQuestions
    /\ session' = [session EXCEPT ![s] = [pc |-> "generate", sql_query |-> PyNone,
                                          asked |-> @.asked + 1]]
    /\ UNCHANGED <<flowVars, probe>>

\* Step 1 in session s; an exception ends the call in the except clause.
SessionGenerates(s) ==
    /\ session[s].pc = "generate"
    /\ \E q \in Questions, c \in CompletionBehaviours(GenerateTexts) :
          LET out == GenerateSqlQuery(q, c) IN
          IF out.raised THEN SessionGoes(s, "done", PyNone)
          ELSE SessionGoes(s, "execute_initial", out.value)

\* Step 2 in session s, on the shared connection.
SessionExecutesInitial(s) ==
    /\ session[s].pc = "execute_initial"
    /\ \E db \in DbBehaviours(session[s].sql_query) :
          LET out == ExecuteSqlQuery(session[s].sql_query, db) IN
          IF out.raised THEN SessionGoes(s, "done", PyNone)
          ELSE SessionGoes(s, AfterInitial(out.value), session[s].sql_query)

\* Step 3, first half, in session s.
SessionReviews(s) ==
    /\ session[s].pc = "review"
    /\ \E c \in CompletionBehaviours(ReviewTexts) :
          LET out == ReviewSqlQuery(session[s].sql_query, c) IN
          IF out.raised THEN SessionGoes(s, "done", PyNone)
          ELSE SessionGoes(s, AfterReview(out.value), out.value.corrected_query)

\* Step 3, second half, in session s, on the shared connection.
SessionExecutesCorrected(s) ==
    /\ session[s].pc = "execute_corrected"
    /\ \E db \in DbBehaviours(session[s].sql_query) :
          LET out == ExecuteSqlQuery(session[s].sql_query, db) IN
          IF out.raised THEN SessionGoes(s, "done", PyNone)
          ELSE SessionGoes(s, AfterCorrected(out.value), PyNone)

\* Step 4 in session s; ask_question returns, or its except clause does.
SessionSynthesizes(s) ==
    /\ session[s].pc = "synthesize"
    /\ SessionGoes(s, "done", PyNone)

SessionNext ==
    \E s \in Sessions :
        \/ SessionAsks(s)
        \/ SessionGenerates(s)
        \/ SessionExecutesInitial(s)
        \/ SessionReviews(s)
        \/ SessionExecutesCorrected(s)
        \/ SessionSynthesizes(s)

SessionSpec == Init /\ [][SessionNext]_vars

\* ------------------------------------------- the SQL clean-up on its own
\* Longest completion text tried, in pieces.
MaxPieces == 4

\* What completion texts are made of: the fences, whitespace and a letter.
Pieces == {SqlFence, Fence, <<" ">>, <<"\n">>, <<"q">>}

RECURSIVE Flatten(_)
Flatten(ps) == IF ps = <<>> THEN <<>> ELSE Head(ps) \o Flatten(Tail(ps))

\* Completion texts of up to MaxPieces pieces.
CompletionTexts ==
    UNION {{Flatten(ps) : ps \in [1..k -> Pieces]} : k \in 0..MaxPieces}

\* Lines 143-151 applied to one completion text.
CleanOnce ==
    /\ probe.fn = "none"
    /\ \E text \in CompletionTexts :
          probe' = [fn |-> "clean", input |-> text, output |-> CleanSQL(text),
                    again |-> <<>>]
    /\ UNCHANGED <<flowVars, session>>

\* Lines 143-151 applied to their own result.
CleanAgain ==
    /\ probe.fn = "clean"
    /\ probe' = [probe EXCEPT !.fn = "clean_again",
                               !.again = CleanSQL(probe.output)]
    /\ UNCHANGED <<flowVars, session>>

CleanNext == CleanOnce \/ CleanAgain

CleanSpec == Init /\ [][CleanNext]_vars

\* ------------------------------------------------ _get_database_schema
\* The catalogue the database answers the metadata queries from: up to
\* MaxTables tables, each with one column and up to MaxSampleRows rows.
MaxTables == 2
MaxSampleRows == 1
TableNames == <<"t1", "t2", "t3">>

\* One table: the row DESCRIBE gives for its column (name, type, key; the
\* null, default and extra fields are not used) and the rows of SELECT *.
Table(name, key, n) ==
    [name |-> name,
     columns |-> << [col_name |-> "a", col_type |-> "int", key |-> key] >>,
     sample_data |-> [i \in 1..n |-> <<"(", ToString(i), ",)">>]]

Catalogues ==
    UNION {{[i \in 1..k |-> Table(TableNames[i], keys[i], ns[i])] :
               keys \in [1..k -> {"PRI", ""}], ns \in [1..k -> 0..MaxSampleRows]} :
           k \in 0..MaxTables}

\* Where the introspection meets a mysql.connector.Error, if anywhere: when
\* the cursor is obtained (line 86), at SHOW TABLES (line 90), or at the
\* DESCRIBE (line 97) or the SELECT (line 105) of table number 'at'.
SchemaFailures(tables) ==
    [stage : {"none", "cursor", "show"}, at : {0}]
    \cup [stage : {"describe", "sample"}, at : 1..Len(tables)]

\* Line 102: one column of DESCRIBE.
ColumnLine(column) ==
    <<"  - ", column.col_name, ": ", column.col_type, " ">>
    \o (IF column.key = "PRI" THEN <<"(Primary Key)">> ELSE <<>>)

\* Lines 107-110: the sample rows, if there are any.
SampleLines(sample_data) ==
    IF sample_data # <<>>
    THEN <<<<"  Sample data:">>>>
         \o [i \in 1..Len(sample_data) |-> <<"    ">> \o sample_data[i]]
    ELSE <<>>

\* Lines 94-110 for one table: what is appended to schema_info before the
\* stage at which the table's metadata query errors ("none": no error).
TableLines(t, stage) ==
    LET header == <<<<"\nTable: ", t.name>>>>
        columns == [i \in 1..Len(t.columns) |-> ColumnLine(t.columns[i])]
    IN CASE stage = "describe" -> header
         [] stage = "sample" -> header \o columns
         [] OTHER -> header \o columns \o SampleLines(t.sample_data)

\* The loop of line 93 from table i on: the error leaves the loop, and the
\* try block, for the except clause of line 112.
RECURSIVE SchemaInfo(_, _, _)
SchemaInfo(tables, i, fail) ==
    IF i > Len(tables) THEN <<>>
    ELSE IF fail.at = i THEN TableLines(tables[i], fail.stage)
    ELSE TableLines(tables[i], "none") \o SchemaInfo(tables, i + 1, fail)

\* "\n".join(lines)
RECURSIVE Join(_)
Join(lines) ==
    IF lines = <<>> THEN <<>>
    ELSE IF Len(lines) = 1 THEN lines[1]
    ELSE lines[1] \o <<"\n">> \o Join(Tail(lines))

\* _get_database_schema() on a database holding 'tables' that fails as 'fail'.
GetDatabaseSchema(tables, fail) ==
    CASE fail.stage = "cursor" ->
            Raised([cls |-> "MySQLError", msg |-> "e1"])
      [] fail.stage = "show" -> Returned(Join(<<>>))
      [] OTHER -> Returned(Join(SchemaInfo(tables, 1, fail)))

\* Line 66: __init__ builds schema_info.
IntrospectSchema ==
    /\ probe.fn = "none"
    /\ \E tables \in Catalogues :
          \E fail \in SchemaFailures(tables) :
             probe' = [fn |-> "schema",
                       input |-> [tables |-> tables, fail |-> fail],
                       output |-> GetDatabaseSchema(tables, fail),
                       again |-> <<>>]
    /\ UNCHANGED <<flowVars, session>>

SchemaSpec == Init /\ [][IntrospectSchema]_vars

\* ------------------------------------------------------- error handling
\* The database behaviour of a call was a database error.
DatabaseError(db) ==
    /\ db.kind \in {"cursor_raises", "execute_raises"}
    /\ db.e.cls = "MySQLError"

\* A QueryResult of a failed execution, as the executor's contract has it.
IsFailureResult(r) ==
    /\ IsQueryResult(r)
    /\ ~r.success
    /\ r.error_message # PyNone
    /\ r.data = <<>>
    /\ r.column_names = <<>>

\* C11: the executor does not raise on a database error; every execution of
\* a SQL string that errors in the database returns a QueryResult with
\* success = false, a non-null error_message, empty data and empty
\* column_names.
C11_ExecutorNeverRaises ==
    \A i \in 1..Len(Executions) :
        (Executions[i].arg.t = "str" /\ DatabaseError(Executions[i].reply))
            => /\ ~Executions[i].raised
               /\ IsFailureResult(Executions[i].result)

\* The reply of the completion service parses as a JSON object after the
\* fences are removed.
ParsesAsObject(c) ==
    /\ c.kind = "text"
    /\ ~JsonLoads(CleanJSON(c.text)).raised
    /\ JsonLoads(CleanJSON(c.text)).value.t = "dict"

IsSQLReview(r) == DOMAIN r = {"review_text", "corrected_query"}

\* The review text is the fallback's: it starts with "Error:" and ends with
\* the text of the exception.
EncodesError(review_text) ==
    /\ review_text.t = "str"
    /\ Len(review_text.v) = 3
    /\ review_text.v[1] = "Error:"
    /\ review_text.v[3] \in ExcMessages \cup {"JSONDecodeError", "AttributeError"}

\* C12: the reviewer never raises; when the completion call raises or its
\* reply is not a JSON object, it returns a SQLReview whose review_text
\* encodes the error and whose corrected_query is None, and the flow goes on
\* with that review.
C12_ReviewerNeverRaises ==
    /\ \A i \in 1..NumCalls("review") :
          LET c == CallsOf("review")[i] IN
          /\ IsSQLReview(c.result)
          /\ ~ParsesAsObject(c.reply)
                => /\ EncodesError(c.result.review_text)
                   /\ c.result.corrected_query = PyNone
    /\ (calls # <<>> /\ calls[Len(calls)].op = "review")
          => /\ pc \in {"execute_corrected", "synthesize", "return"}
             /\ review_result_for_response = calls[Len(calls)].result

\* Reachable: the completion call of the review raised and the flow went on
\* to compose the answer.
C12_Witness ==
    /\ Reviewed
    /\ CallsOf("review")[1].raised
    /\ pc = "synthesize"

\* Reachable: the reply was JSON, but a list, and the fallback was returned.
C12_WitnessNotObject ==
    /\ Reviewed
    /\ CallsOf("review")[1].reply.kind = "text"
    /\ ~JsonLoads(CleanJSON(CallsOf("review")[1].reply.text)).raised
    /\ ~ParsesAsObject(CallsOf("review")[1].reply)
    /\ EncodesError(TheReview.review_text)

\* The completion call of the synthesis raised.
SynthesisFailed ==
    /\ NumCalls("synthesize") >= 1
    /\ CallsOf("synthesize")[1].raised

\* The result of the last execution of the question.
LastExecution == Executions[Len(Executions)].result

\* C13: a synthesis failure is never fatal; when the completion call of the
\* synthesis raises, ask_question returns normally, the answer is the
\* fallback sentence stating the row count, the response carries the
\* successful final query_result with its rows and the review unchanged.
C13_SynthesisFailureNotFatal ==
    (Done /\ SynthesisFailed)
        => /\ pc = "return"
           /\ agent_response.query_result = LastExecution
           /\ agent_response.query_result.success
           /\ agent_response.query_result.data # <<>>
           /\ agent_response.natural_language_answer
                 = FallbackSentence(agent_response.query_result)
           /\ agent_response.review
                 = (IF Reviewed THEN TheReview ELSE PyNone)

\* Reachable: the synthesis failed after a corrected query returned rows.
C13_Witness ==
    /\ Done
    /\ SynthesisFailed
    /\ ReviewerCorrected
    /\ Len(agent_response.query_result.data) = MaxRows

\* -------------------------------------------------------- fence stripping
\* The text holds a markdown fence somewhere.
HasFence(text) ==
    \E i \in 1..Len(text) - 2 : SubSeq(text, i, i + 2) = Fence

\* The text is an sql fence, a body and a closing fence.
IsWrapped(text) ==
    /\ Len(text) >= Len(SqlFence) + Len(Fence)
    /\ StartsWith(text, SqlFence)
    /\ EndsWith(text, Fence)

BodyOf(text) == SubSeq(text, Len(SqlFence) + 1, Len(text) - Len(Fence))

\* C14 as stated: a text of the form sql fence + body + fence is cleaned to
\* the body without leading and trailing whitespace; a text without fences
\* is cleaned to itself; and cleaning a cleaned text changes nothing.
C14_FenceStrippingAsStated ==
    /\ (probe.fn \in {"clean", "clean_again"} /\ IsWrapped(probe.input))
          => probe.output = Strip(BodyOf(probe.input))
    /\ (probe.fn \in {"clean", "clean_again"} /\ ~HasFence(probe.input))
          => probe.output = probe.input
    /\ probe.fn = "clean_again" => probe.again = probe.output

\* C14: a text of the form sql fence + body + fence is cleaned to the body
\* without leading and trailing whitespace; a text without fences is cleaned
\* to itself without leading and trailing whitespace; and cleaning a cleaned
\* text changes nothing when the text had no fences, or was sql fence + body
\* + fence with no fence in the body.
C14_FenceStripping ==
    /\ (probe.fn \in {"clean", "clean_again"} /\ IsWrapped(probe.input))
          => probe.output = Strip(BodyOf(probe.input))
    /\ (probe.fn \in {"clean", "clean_again"} /\ ~HasFence(probe.input))
          => probe.output = Strip(probe.input)
    /\ (/\ probe.fn = "clean_again"
        /\ \/ ~HasFence(probe.input)
           \/ IsWrapped(probe.input) /\ ~HasFence(BodyOf(probe.input)))
          => probe.again = probe.output

\* Reachable: a fenced statement with whitespace around its body was cleaned
\* twice.
C14_Witness ==
    /\ probe.fn = "clean_again"
    /\ IsWrapped(probe.input)
    /\ BodyOf(probe.input) = <<" ", "q">>
    /\ probe.again = <<"q">>

\* ------------------------------------------------------------ concurrency
\* Session s is inside ask_question: called, not yet returned.
InAskQuestion(s) == session[s].pc \notin {"idle", "done"}

\* C15: one question is fully resolved before the next begins; calls of
\* ask_question on the one agent never overlap, also when several UI
\* sessions got the agent from get_sql_agent.
C15_RequestAtATime ==
    \A s, t \in Sessions : (InAskQuestion(s) /\ InAskQuestion(t)) => s = t

\* --------------------------------------------------- schema introspection
\* p occurs in s as a run of consecutive pieces.
IsInfix(p, s) ==
    \E i \in 0..Len(s) - Len(p) : SubSeq(s, i + 1, i + Len(p)) = p

\* C16: when a metadata query errors for one table, _get_database_schema
\* does not raise, the description it returns holds nothing of that table,
\* and it holds the whole entry of every other table.
C16_FailureIsolatedPerTable ==
    (probe.fn = "schema" /\ probe.input.fail.stage \in {"describe", "sample"})
        => LET tables == probe.input.tables
               failed == probe.input.fail.at
           IN /\ ~probe.output.raised
              /\ ~IsInfix(<<"\nTable: ", tables[failed].name>>, probe.output.value)
              /\ \A i \in 1..Len(tables) :
                    i # failed
                       => IsInfix(Join(TableLines(tables[i], "none")),
                                  probe.output.value)

\* ------------------------------------------------------- read-only agent
\* C17: schema_info is built once and read-only afterwards; no step of any
\* ask_question call, whatever its outcome, changes schema_info or replaces
\* the connection or the completion-client handle.
C17_AgentReadOnly == [][self' = self]_vars

\* Reachable: a second question has ended in the top-level except clause
\* after a first one went through review and retry, the agent being as built.
C17_Witness ==
    /\ asked = MaxQuestions
    /\ pc = "except_return"
    /\ NumCalls("execute") = 2
    /\ self.connection = "connection"
    /\ self.model = "gemini-2.5-flash"

\* ------------------------------------------------------ synthesis prompt
\* The synthesis completion calls of the running question.
Syntheses == CallsOf("synthesize")

\* A review exists for the question and came from a reply that parsed as
\* the JSON object asked for, not from the reviewer's error fallback.
GenuineReview ==
    /\ Reviewed
    /\ ParsesAsObject(CallsOf("review")[1].reply)

\* C18: in the synthesis prompt the review-info block is non-empty exactly
\* when a review exists for the question and came from a successfully parsed
\* reviewer reply rather than from the reviewer's error fallback.
C18_ReviewInfoIffGenuineReview ==
    \A i \in 1..Len(Syntheses) :
        (Syntheses[i].arg.review_info # <<>>) <=> GenuineReview

\* C19: the data summary sent for the synthesis of a successful result of
\* n >= 1 rows has total_rows = n, sample_data = the first min(n, 10) rows
\* in order, and has_more_data true exactly when n > 10.
C19_DataSummary ==
    \A i \in 1..Len(Syntheses) :
        LET summary == Syntheses[i].arg.data_summary
            rows == final_query_result.data
            n == Len(rows)
        IN /\ final_query_result.success
           /\ n >= 1
           /\ summary.total_rows = n
           /\ summary.sample_data = [k \in 1..(IF n < 10 THEN n ELSE 10) |-> rows[k]]
           /\ summary.has_more_data <=> n > 10

\* Reachable: a result of exactly ten rows and its summary, not truncated.
C19_Witness ==
    /\ Len(Syntheses) = 1
    /\ Len(final_query_result.data) = 10
    /\ ~Syntheses[1].arg.data_summary.has_more_data
    /\ Len(Syntheses[1].arg.data_summary.sample_data) = 10

\* Reachable: a result of eleven rows was summarised with ten of them.
C19_WitnessTruncated ==
    /\ Len(Syntheses) = 1
    /\ Len(final_query_result.data) = 11
    /\ Syntheses[1].arg.data_summary.has_more_data
    /\ Len(Syntheses[1].arg.data_summary.sample_data) = 10

\* ------------------------------------------------------------ call order
\* The place of call number i in the order generate, initial execution,
\* review, corrected execution, synthesis.
StageOf(i) ==
    CASE calls[i].op = "generate" -> 1
      [] calls[i].op = "execute" ->
            IF \E j \in 1..(i - 1) : calls[j].op = "review" THEN 4 ELSE 2
      [] calls[i].op = "review" -> 3
      [] OTHER -> 5

\* C20: within one ask_question call the collaborator calls occur in the
\* order generate, initial execution, review, corrected execution,
\* synthesis, each at most once; the review comes only after an initial
\* execution that failed and is given the generated SQL; the synthesis comes
\* after every execution and only when the final result succeeded with at
\* least one row; at most three completion calls are made.
C20_CallOrder ==
    /\ \A i, j \in 1..Len(calls) : i < j => StageOf(i) < StageOf(j)
    /\ \A i \in 1..Len(calls) :
          calls[i].op = "review"
             => /\ i = 3
                /\ calls[1].op = "generate" /\ ~calls[1].raised
                /\ calls[2].op = "execute" /\ ~calls[2].raised
                /\ ~calls[2].result.success
                /\ calls[i].arg.sql_query = calls[1].result
                /\ calls[i].arg.sql_query = calls[2].arg
    /\ \A i \in 1..Len(calls) :
          calls[i].op = "synthesize"
             => /\ i = Len(calls)
                /\ calls[i - 1].op = "execute" /\ ~calls[i - 1].raised
                /\ calls[i - 1].result.success
                /\ calls[i - 1].result.data # <<>>
    /\ NumCalls("generate") + NumCalls("review") + NumCalls("synthesize") <= 3

\* Reachable: all five calls were made for one question.
C20_Witness ==
    /\ Len(calls) = 5
    /\ calls[3].op = "review"
    /\ calls[5].op = "synthesize"

\* --------------------------------------------- fatal abort or failed query
\* The response says the query failed and carries no review.
FailedWithoutReview ==
    /\ ~agent_response.query_result.success
    /\ agent_response.review = PyNone

C21_WitnessNormalReturn ==
    /\ pc = "return"
    /\ ~agent_response.query_result.success
    /\ agent_response.review # PyNone

====
